---------------------------- MODULE Spec2Model ----------------------------
(***************************************************************************)
(* A model of src/app.py: the URL shortener's rate limiter, URL            *)
(* normalisation, the `urls` table and the /shorten and /<code> handlers,  *)
(* run by concurrent request threads.                                      *)
(*                                                                         *)
(* Text is a sequence of tokens.  A token stands for one character or for  *)
(* a run of letters ("http", "https", "ftp", "HTTP", and "a^2040", a run   *)
(* of 2040 letters that lets a short sequence reach MAX_URL_LEN).          *)
(* Time is in seconds.                                                     *)
(***************************************************************************)
EXTENDS Integers, Sequences, FiniteSets, Bags, TLC

\* ------------------------------------------------------------ constants
CODE_LEN == 6
MAX_URL_LEN == 2048
RATE_LIMIT_BURST == 10
RATE_LIMIT_WINDOW == 60

\* Two symbols of string.ascii_letters + string.digits.
CODE_CHARS == {"a", "b"}

\* ------------------------------------------------------------ bounds
\* The clock advances in steps of TickStep seconds, up to MaxTime.
TickStep == 30
MaxTime == 90
\* Requests started in one run of the handlers' specification.
MaxRequests == 3
\* Redirects counted on one row.
MaxClicks == 2
\* Tokens after the scheme in a submitted long_url.
MaxUrlBody == 4
\* Requests started by one client in one run of a burst of requests.
MaxBurstRequests == 11
\* Requests started in one run of two clients' requests.
MaxKeysRequests == 13
\* Calls admitted per key in one run of the rate limiter's specification.
MaxAdmitted == 12

Threads == {1, 2}
Clients == {"10.0.0.1"}
\* The clients of the runs with two rate-limiter keys.
TwoClients == {"10.0.0.1", "10.0.0.2"}

\* ------------------------------------------------------------ text
Letters == {"a", "http", "https", "ftp", "HTTP", "a^2040"}

TokLen(tok) ==
    CASE tok = "http" -> 4
      [] tok = "HTTP" -> 4
      [] tok = "https" -> 5
      [] tok = "ftp" -> 3
      [] tok = "a^2040" -> 2040
      [] OTHER -> 1

RECURSIVE StrLen(_)
StrLen(s) == IF s = <<>> THEN 0 ELSE TokLen(Head(s)) + StrLen(Tail(s))

\* str.lower() on one token.
Lower(tok) == IF tok = "HTTP" THEN "http" ELSE tok

RECURSIVE LStrip(_)
LStrip(s) == IF s # <<>> /\ Head(s) = " " THEN LStrip(Tail(s)) ELSE s

RECURSIVE RStrip(_)
RStrip(s) ==
    IF s # <<>> /\ s[Len(s)] = " " THEN RStrip(SubSeq(s, 1, Len(s) - 1)) ELSE s

\* str.strip()
Strip(s) == RStrip(LStrip(s))

\* The first position of tok in s at or after position from; 0 when there is none.
RECURSIVE FindFrom(_, _, _)
FindFrom(s, tok, from) ==
    IF from > Len(s) THEN 0
    ELSE IF s[from] = tok THEN from
    ELSE FindFrom(s, tok, from + 1)

\* urllib.parse.urlparse, its scheme and netloc: the scheme is the text before
\* the first ":" when that text is not empty and is made of scheme characters,
\* lower-cased; the netloc is what follows a leading "//" up to the next "/".
urlparse(u) ==
    LET i == FindFrom(u, ":", 1)
        hasScheme == i > 1 /\ \A k \in 1..(i - 1) : u[k] \in Letters
        rest == IF hasScheme THEN SubSeq(u, i + 1, Len(u)) ELSE u
        slashes == Len(rest) >= 2 /\ rest[1] = "/" /\ rest[2] = "/"
        j == FindFrom(rest, "/", 3)
    IN  [scheme |-> IF hasScheme THEN [k \in 1..(i - 1) |-> Lower(u[k])] ELSE <<>>,
         netloc |-> IF ~slashes THEN <<>>
                    ELSE IF j = 0 THEN SubSeq(rest, 3, Len(rest))
                    ELSE SubSeq(rest, 3, j - 1)]

HttpsPrefix == <<"https", ":", "/", "/">>

\* normalize_url without lines 58-60: nothing is put before a text that has
\* no scheme.
NormalizeAsTyped(raw) ==
    LET u == Strip(raw)
        parsed == urlparse(u)
    IN  IF u = <<>> THEN [ok |-> TRUE, url |-> u, error |-> ""]
        ELSE IF parsed.scheme \notin {<<"http">>, <<"https">>}
             THEN [ok |-> FALSE, url |-> <<>>,
                   error |-> "Only http/https URLs are supported."]
        ELSE IF parsed.netloc = <<>>
             THEN [ok |-> FALSE, url |-> <<>>, error |-> "Invalid URL host."]
        ELSE IF StrLen(u) > MAX_URL_LEN
             THEN [ok |-> FALSE, url |-> <<>>, error |-> "URL is too long."]
        ELSE [ok |-> TRUE, url |-> u, error |-> ""]

\* normalize_url: the normalised text, or the ValueError's message.
normalize_url(raw) ==
    LET u0 == Strip(raw)
        u == IF (urlparse(u0)).scheme = <<>> THEN HttpsPrefix \o u0 ELSE u0
        parsed == urlparse(u)
    IN  IF u0 = <<>> THEN [ok |-> TRUE, url |-> u0, error |-> ""]
        ELSE IF parsed.scheme \notin {<<"http">>, <<"https">>}
             THEN [ok |-> FALSE, url |-> <<>>,
                   error |-> "Only http/https URLs are supported."]
        ELSE IF parsed.netloc = <<>>
             THEN [ok |-> FALSE, url |-> <<>>, error |-> "Invalid URL host."]
        ELSE IF StrLen(u) > MAX_URL_LEN
             THEN [ok |-> FALSE, url |-> <<>>, error |-> "URL is too long."]
        ELSE [ok |-> TRUE, url |-> u, error |-> ""]

\* ------------------------------------------------------------ rate limiter
\* The pruning with >= for >: a timestamp exactly one window old is kept.
RECURSIVE PruneKeepsBoundary(_, _)
PruneKeepsBoundary(bucket, window_start) ==
    IF bucket = <<>> THEN <<>>
    ELSE IF Head(bucket) >= window_start
         THEN <<Head(bucket)>> \o PruneKeepsBoundary(Tail(bucket), window_start)
         ELSE PruneKeepsBoundary(Tail(bucket), window_start)

\* [t for t in bucket if t > window_start]
RECURSIVE Prune(_, _)
Prune(bucket, window_start) ==
    IF bucket = <<>> THEN <<>>
    ELSE IF Head(bucket) > window_start
         THEN <<Head(bucket)>> \o Prune(Tail(bucket), window_start)
         ELSE Prune(Tail(bucket), window_start)

\* The test with <= for <.
AllowedAtBurst(bucket) == Len(bucket) <= RATE_LIMIT_BURST

\* len(bucket) < RATE_LIMIT_BURST
Allowed(bucket) == Len(bucket) < RATE_LIMIT_BURST

\* f"create:{client_ip}"
CreateKey(client_ip) == <<"create:", client_ip>>

Keys == {CreateKey(ip) : ip \in Clients \cup TwoClients}


\* ------------------------------------------------------------ requests
\* for _ in range(10)
RETRIES == 10

\* random_code(n): every string of n symbols of CODE_CHARS.
random_code(n) == [1..n -> CODE_CHARS]

\* The outcomes of the random source that the runs explore.
Draws == {<<"a", "a", "a", "a", "a", "a">>, <<"a", "a", "a", "a", "a", "b">>}

\* The one outcome of the random source in a burst of requests.
BurstDraw == <<"a", "a", "a", "a", "a", "a">>

\* CUSTOM_CODE_REGEX, ^[A-Za-z0-9_-]{3,32}$, over the symbols "a", "b", "_", "-"
\* of its class; " " and "!" are outside the class.
CodeClass == {"a", "b", "_", "-"}
CUSTOM_CODE_REGEX(code) ==
    /\ Len(code) >= 3
    /\ Len(code) <= 32
    /\ \A k \in 1..Len(code) : code[k] \in CodeClass

\* The long_url form values submitted.
RawUrls ==
    { <<>>,
      <<" ", "a", " ">>,
      <<"ftp", ":", "/", "/", "a">>,
      <<"http", ":", "/", "/">> }

\* Every sequence over S of at most n tokens.
SeqsUpTo(S, n) == UNION {[1..k -> S] : k \in 0..n}

\* The long_url form values submitted to normalize_url: spaces or none around
\* a text that starts with a scheme or with none and goes on with at most
\* MaxUrlBody letters, ":" and "/".
UrlTexts ==
    LET pad == {<<>>, <<" ">>}
        start == { <<>>,
                   <<"http", ":", "/", "/">>,
                   <<"https", ":", "/", "/">>,
                   <<"HTTP", ":", "/", "/">>,
                   <<"ftp", ":", "/", "/">>,
                   <<"https", ":">> }
        body == SeqsUpTo({"a", "a^2040", ":", "/"}, MaxUrlBody)
    IN  {l \o s \o b \o r : l \in pad, s \in start, b \in body, r \in pad}

\* The long_url form values submitted in a burst: a valid one and one with
\* an unsupported scheme.
BurstUrls == {<<" ", "a", " ">>, <<"ftp", ":", "/", "/", "a">>}

\* The long_url form values submitted while the clock advances: two valid
\* ones, with and without a scheme.
StoreUrls == {<<" ", "a", " ">>, <<"http", ":", "/", "/", "a">>}

\* The custom_code form values submitted with them: none, and a valid one.
StoreCodes == {<<>>, <<" ", "a", "a", "a", "a", "a", "a", " ">>}

\* The forms that create() rejects: a long_url with an unsupported scheme, and
\* a custom code that is too short.
RejectedForms ==
    { [long_url |-> <<"ftp", ":", "/", "/", "a">>, custom_code |-> <<>>],
      [long_url |-> <<" ", "a", " ">>, custom_code |-> <<"a", "b">>] }

\* The custom_code form values submitted: none, a valid one padded with spaces
\* (which the random source can draw too), one too short.
CustomCodes ==
    { <<>>,
      <<" ", "a", "a", "a", "a", "a", "a", " ">>,
      <<"a", "b">> }

\* The codes requested on /<code>.
Codes == Draws

\* jsonify(...) of an error without its status: Flask answers 200.
JsonErrorOk(status, msg) ==
    [status |-> 200, error |-> msg, code |-> <<>>, long_url |-> <<>>]

\* jsonify(...), redirect(...), abort(404): a response's status and fields.
NoResponse == [status |-> 0, error |-> "", code |-> <<>>, long_url |-> <<>>]
JsonError(status, msg) ==
    [status |-> status, error |-> msg, code |-> <<>>, long_url |-> <<>>]
JsonLink(code, long_url) ==
    [status |-> 200, error |-> "", code |-> code, long_url |-> long_url]
Redirect(code, long_url) ==
    [status |-> 302, error |-> "", code |-> code, long_url |-> long_url]
NotFound == JsonError(404, "Not Found")
ServerError == JsonError(500, "Internal Server Error")

\* The error messages (the dashes of the second are en dashes in the source).
TooManyRequests == "Too many requests"
BadCustomCode == "Custom code: 3-32 chars (A-Z, a-z, 0-9, _ or -)"
CodeTaken == "That code is already taken"

\* ------------------------------------------------------------ state
VARIABLES
    urls,         \* the urls table: its rows, in rowid order
    rate_bucket,  \* _rate_bucket: key -> the timestamps of admitted calls
    clock,        \* the wall clock, in seconds
    pc,           \* each thread's place in its handler
    req,          \* each thread's request, as far as the handler has read it
    local,        \* each thread's local variables
    resp,         \* each thread's last response
    admitted,     \* history: key -> the bag of times of the calls admitted
    denied,       \* history: the <<key, time>> of the calls denied
    issued,       \* history: the {code, long_url} of every success response
    served,       \* history: the bag of the {code, long_url} redirected to
    fresh,        \* history: no row held the request's custom code when the
                  \* form was read
    nreq          \* the number of requests started

vars == <<urls, rate_bucket, clock, pc, req, local, resp,
          admitted, denied, issued, served, fresh, nreq>>

NoRequest == [op |-> "none", client_ip |-> "", long_url |-> <<>>,
              custom_code |-> <<>>, code |-> <<>>]
NoLocals == [now |-> 0, bucket |-> <<>>, allowed |-> FALSE,
             long_url |-> <<>>, code |-> <<>>, tries |-> 0]

\* The table is created empty (init_db) and _rate_bucket = {}.
Init ==
    /\ urls = <<>>
    /\ rate_bucket = [k \in Keys |-> <<>>]
    /\ clock = 0
    /\ pc = [t \in Threads |-> "idle"]
    /\ req = [t \in Threads |-> NoRequest]
    /\ local = [t \in Threads |-> NoLocals]
    /\ resp = [t \in Threads |-> NoResponse]
    /\ admitted = [k \in Keys |-> EmptyBag]
    /\ denied = {}
    /\ issued = <<>>
    /\ served = EmptyBag
    /\ fresh = [t \in Threads |-> FALSE]
    /\ nreq = 0

Ready(t) == pc[t] \in {"idle", "done"}

\* SELECT ... FROM urls WHERE code=?: the positions of the matching rows.
Select(code) == {i \in 1..Len(urls) : urls[i].code = code}
FetchOne(code) == urls[CHOOSE i \in Select(code) : \A j \in Select(code) : i <= j]

\* The clock advances.
Tick(dt) ==
    /\ clock + dt <= MaxTime
    /\ clock' = clock + dt
    /\ UNCHANGED <<urls, rate_bucket, pc, req, local, resp,
                   admitted, denied, issued, served, fresh, nreq>>

\* ------------------------------------------------------------ rate_limited
\* A thread calls rate_limited(key) and reads the clock.
Enter(t, r) ==
    /\ Ready(t)
    /\ pc' = [pc EXCEPT ![t] = "rl_get"]
    /\ req' = [req EXCEPT ![t] = r]
    /\ local' = [local EXCEPT ![t] = [NoLocals EXCEPT !.now = clock]]
    /\ resp' = [resp EXCEPT ![t] = NoResponse]
    /\ fresh' = [fresh EXCEPT ![t] = FALSE]

\* rate_limited without the test of line 80: the timestamp is appended for a
\* denied call too.
RateLimitedGetAppends(t) ==
    /\ pc[t] = "rl_get"
    /\ LET key == CreateKey(req[t].client_ip)
           bucket == Prune(rate_bucket[key], local[t].now - RATE_LIMIT_WINDOW)
       IN  local' = [local EXCEPT ![t].allowed = Allowed(bucket),
                                  ![t].bucket = Append(bucket, local[t].now)]
    /\ pc' = [pc EXCEPT ![t] = "rl_set"]
    /\ UNCHANGED <<urls, rate_bucket, clock, req, resp,
                   admitted, denied, issued, served, fresh, nreq>>

\* bucket = _rate_bucket.get(key, []); prune; allowed; append.
RateLimitedGet(t) ==
    /\ pc[t] = "rl_get"
    /\ LET key == CreateKey(req[t].client_ip)
           bucket == Prune(rate_bucket[key], local[t].now - RATE_LIMIT_WINDOW)
           allowed == Allowed(bucket)
       IN  local' = [local EXCEPT ![t].allowed = allowed,
                                  ![t].bucket = IF allowed
                                                THEN Append(bucket, local[t].now)
                                                ELSE bucket]
    /\ pc' = [pc EXCEPT ![t] = "rl_set"]
    /\ UNCHANGED <<urls, rate_bucket, clock, req, resp,
                   admitted, denied, issued, served, fresh, nreq>>

\* rate_limited storing its list under every key.
RateLimitedSetEveryKey(t) ==
    LET key == CreateKey(req[t].client_ip)
    IN  /\ rate_bucket' = [k \in DOMAIN rate_bucket |-> local[t].bucket]
        /\ admitted' = IF local[t].allowed
                       THEN [admitted EXCEPT
                                ![key] = @ (+) SetToBag({local[t].now})]
                       ELSE admitted
        /\ denied' = IF local[t].allowed THEN denied
                     ELSE denied \cup {<<key, local[t].now>>}

\* _rate_bucket[key] = bucket; return not allowed.
RateLimitedSet(t) ==
    LET key == CreateKey(req[t].client_ip)
    IN  /\ rate_bucket' = [rate_bucket EXCEPT ![key] = local[t].bucket]
        /\ admitted' = IF local[t].allowed
                       THEN [admitted EXCEPT
                                ![key] = @ (+) SetToBag({local[t].now})]
                       ELSE admitted
        /\ denied' = IF local[t].allowed THEN denied
                     ELSE denied \cup {<<key, local[t].now>>}

\* rate_limited(key), called on its own.
CallRateLimited(t, ip) ==
    /\ BagCardinality(admitted[CreateKey(ip)]) < MaxAdmitted
    /\ Enter(t, [NoRequest EXCEPT !.op = "rate_limited", !.client_ip = ip])
    /\ UNCHANGED <<urls, rate_bucket, clock, admitted, denied, issued, served,
                   nreq>>

RateLimitedReturn(t) ==
    /\ pc[t] = "rl_set"
    /\ req[t].op = "rate_limited"
    /\ RateLimitedSet(t)
    /\ pc' = [pc EXCEPT ![t] = "done"]
    /\ UNCHANGED <<urls, clock, req, local, resp, issued, served, fresh, nreq>>

NextRate(T, dt) ==
    \/ Tick(dt)
    \/ \E t \in T, ip \in Clients : CallRateLimited(t, ip)
    \/ \E t \in T : RateLimitedGet(t)
    \/ \E t \in T : RateLimitedReturn(t)

\* The rate limiter called by concurrent threads.
SpecRate == Init /\ [][NextRate(Threads, RATE_LIMIT_WINDOW)]_vars

\* The rate limiter called by one thread, one call after another.
SpecRateSeq == Init /\ [][NextRate({1}, TickStep)]_vars


\* ------------------------------------------------------------ /shorten
\* The table without its PRIMARY KEY: every INSERT is accepted.
NoPrimaryKey(code) == TRUE

\* code TEXT PRIMARY KEY: an INSERT of a code some row holds raises
\* sqlite3.IntegrityError.
PrimaryKeyFree(code) == Select(code) = {}

\* The row with clicks defaulting to 1 for 0.
NewRowClicked(code, long_url) ==
    [code |-> code, long_url |-> long_url, created_at |-> clock,
     clicks |-> 1, last_accessed |-> <<>>]

\* A row as INSERT INTO urls (code, long_url) makes it: created_at is
\* datetime('now'), clicks is 0, last_accessed is NULL (<<>>).
NewRow(code, long_url) ==
    [code |-> code, long_url |-> long_url, created_at |-> clock,
     clicks |-> 0, last_accessed |-> <<>>]

\* POST /shorten arrives: create() calls rate_limited, which reads the clock.
\* At most n requests are started.
StartCreateUpTo(t, ip, n) ==
    /\ nreq < n
    /\ nreq' = nreq + 1
    /\ Enter(t, [NoRequest EXCEPT !.op = "create", !.client_ip = ip])
    /\ UNCHANGED <<urls, rate_bucket, clock, admitted, denied, issued, served>>

StartCreate(t, ip) == StartCreateUpTo(t, ip, MaxRequests)

\* rate_limited returns; then 429, or the form's long_url and custom_code are
\* read and checked.
CreateAdmission(t, raw, custom) ==
    /\ pc[t] = "rl_set"
    /\ req[t].op = "create"
    /\ RateLimitedSet(t)
    /\ LET nu == normalize_url(raw)
           custom_code == Strip(custom)
           stop(r) == /\ resp' = [resp EXCEPT ![t] = r]
                      /\ pc' = [pc EXCEPT ![t] = "done"]
                      /\ local' = [local EXCEPT ![t] = NoLocals]
           go_on(to, code) ==
                      /\ resp' = resp
                      /\ pc' = [pc EXCEPT ![t] = to]
                      /\ local' = [local EXCEPT ![t] =
                             [NoLocals EXCEPT !.long_url = nu.url,
                                              !.code = code]]
       IN  IF ~local[t].allowed
           THEN /\ stop(JsonError(429, TooManyRequests))
                /\ UNCHANGED <<req, fresh>>
           ELSE /\ req' = [req EXCEPT ![t].long_url = raw,
                                      ![t].custom_code = custom]
                /\ fresh' = [fresh EXCEPT ![t] = Select(custom_code) = {}]
                /\ IF ~nu.ok THEN stop(JsonError(200, nu.error))
                   ELSE IF custom_code # <<>>
                        THEN IF ~CUSTOM_CODE_REGEX(custom_code)
                             THEN stop(JsonError(200, BadCustomCode))
                             ELSE go_on("insert", custom_code)
                   ELSE go_on("gen", <<>>)
    /\ UNCHANGED <<urls, clock, issued, served, nreq>>

\* One turn of the loop: code = random_code(); leave the loop when no row holds
\* it.  tries counts the candidates found in the table; the loop ends after
\* RETRIES of them with the last candidate in code.
GenAttempt(t, c) ==
    /\ pc[t] = "gen"
    /\ c \in random_code(CODE_LEN)
    /\ LET found == Select(c) # {}
           tries == IF found THEN local[t].tries + 1 ELSE local[t].tries
       IN  /\ local' = [local EXCEPT ![t].code = c, ![t].tries = tries]
           /\ pc' = [pc EXCEPT ![t] =
                  IF ~found \/ tries = RETRIES THEN "insert" ELSE "gen"]
    /\ UNCHANGED <<urls, rate_bucket, clock, req, resp,
                   admitted, denied, issued, served, fresh, nreq>>

\* INSERT INTO urls (code, long_url); commit; the response.
Insert(t) ==
    /\ pc[t] = "insert"
    /\ IF PrimaryKeyFree(local[t].code)
       THEN /\ urls' = Append(urls, NewRow(local[t].code, local[t].long_url))
            /\ resp' = [resp EXCEPT ![t] =
                            JsonLink(local[t].code, local[t].long_url)]
            /\ issued' = Append(issued, [code |-> local[t].code,
                                         long_url |-> local[t].long_url])
       ELSE /\ resp' = [resp EXCEPT ![t] = JsonError(200, CodeTaken)]
            /\ UNCHANGED <<urls, issued>>
    /\ pc' = [pc EXCEPT ![t] = "done"]
    /\ local' = [local EXCEPT ![t] = [NoLocals EXCEPT !.tries = local[t].tries]]
    /\ UNCHANGED <<rate_bucket, clock, req, admitted, denied, served, fresh, nreq>>

\* ------------------------------------------------------------ /<code>
\* The threads that have read the row of code and not yet updated it.
Updating(code) == {t \in Threads : pc[t] = "go_update" /\ req[t].code = code}

\* GET /<code> arrives: SELECT long_url; 404 when there is no row.
\* At most n requests are started.
StartGoUpTo(t, code, n) ==
    /\ Ready(t)
    /\ nreq < n
    /\ \A i \in Select(code) :
           urls[i].clicks + Cardinality(Updating(code)) < MaxClicks
    /\ nreq' = nreq + 1
    /\ req' = [req EXCEPT ![t] = [NoRequest EXCEPT !.op = "go", !.code = code]]
    /\ fresh' = [fresh EXCEPT ![t] = FALSE]
    /\ IF Select(code) = {}
       THEN /\ resp' = [resp EXCEPT ![t] = NotFound]
            /\ pc' = [pc EXCEPT ![t] = "done"]
            /\ local' = [local EXCEPT ![t] = NoLocals]
       ELSE /\ resp' = [resp EXCEPT ![t] = NoResponse]
            /\ pc' = [pc EXCEPT ![t] = "go_update"]
            /\ local' = [local EXCEPT ![t] =
                   [NoLocals EXCEPT !.long_url = (FetchOne(code)).long_url]]
    /\ UNCHANGED <<urls, rate_bucket, clock, admitted, denied, issued, served>>

StartGo(t, code) == StartGoUpTo(t, code, MaxRequests)

\* The UPDATE without its WHERE clause: every row is counted.
UpdateEveryRow(code) ==
    [i \in 1..Len(urls) |->
        [urls[i] EXCEPT !.clicks = @ + 1, !.last_accessed = <<clock>>]]

\* UPDATE urls SET clicks=clicks+1, last_accessed=datetime('now') WHERE code=?
Update(code) ==
    [i \in 1..Len(urls) |->
        IF urls[i].code = code
        THEN [urls[i] EXCEPT !.clicks = @ + 1, !.last_accessed = <<clock>>]
        ELSE urls[i]]

\* The UPDATE, the commit and the redirect to the long_url that was read.
GoUpdate(t) ==
    /\ pc[t] = "go_update"
    /\ urls' = Update(req[t].code)
    /\ resp' = [resp EXCEPT ![t] = Redirect(req[t].code, local[t].long_url)]
    /\ served' = served (+) SetToBag({[code |-> req[t].code,
                                       long_url |-> local[t].long_url]})
    /\ pc' = [pc EXCEPT ![t] = "done"]
    /\ local' = [local EXCEPT ![t] = NoLocals]
    /\ UNCHANGED <<rate_bucket, clock, req,
                   admitted, denied, issued, fresh, nreq>>

\* The UPDATE or the commit raises (sqlite3.OperationalError, the database is
\* locked): nothing catches it, and the response is a 500.
GoUpdateFails(t) ==
    /\ pc[t] = "go_update"
    /\ resp' = [resp EXCEPT ![t] = ServerError]
    /\ pc' = [pc EXCEPT ![t] = "done"]
    /\ local' = [local EXCEPT ![t] = NoLocals]
    /\ UNCHANGED <<urls, rate_bucket, clock, req,
                   admitted, denied, issued, served, fresh, nreq>>

\* ------------------------------------------------------------ specifications
Next ==
    \/ \E t \in Threads, ip \in Clients : StartCreate(t, ip)
    \/ \E t \in Threads : RateLimitedGet(t)
    \/ \E t \in Threads, raw \in RawUrls, custom \in CustomCodes :
           CreateAdmission(t, raw, custom)
    \/ \E t \in Threads, c \in Draws : GenAttempt(t, c)
    \/ \E t \in Threads : Insert(t)
    \/ \E t \in Threads, code \in Codes : StartGo(t, code)
    \/ \E t \in Threads : GoUpdate(t)

\* The handlers run by concurrent threads within one rate-limit window (the
\* clock stands still), the storage never failing.
Spec == Init /\ [][Next]_vars

\* The same, with the UPDATE of /<code> failing at times.
SpecFault == Init /\ [][Next \/ \E t \in Threads : GoUpdateFails(t)]_vars

\* /shorten called by one client, one request after another, on the empty
\* table, with every long_url of UrlTexts and no custom code.
NextNormalize ==
    \/ urls = <<>> /\ \E ip \in Clients : StartCreate(1, ip)
    \/ RateLimitedGet(1)
    \/ pc[1] = "rl_set" /\ \E raw \in UrlTexts : CreateAdmission(1, raw, <<>>)
    \/ \E c \in Draws : GenAttempt(1, c)
    \/ Insert(1)

SpecNormalize == Init /\ [][NextNormalize]_vars

\* /shorten called by one client, one request after another, up to
\* MaxBurstRequests of them, while the clock advances; the random source
\* draws the code that the custom codes ask for.
NextBurst ==
    \/ Tick(TickStep)
    \/ \E ip \in Clients : StartCreateUpTo(1, ip, MaxBurstRequests)
    \/ RateLimitedGet(1)
    \/ \E raw \in BurstUrls, custom \in CustomCodes :
           CreateAdmission(1, raw, custom)
    \/ GenAttempt(1, BurstDraw)
    \/ Insert(1)

SpecBurst == Init /\ [][NextBurst]_vars

\* /shorten and /<code> called one request after another while the clock
\* advances, with valid long_urls.
NextStore ==
    \/ Tick(TickStep)
    \/ \E ip \in Clients : StartCreate(1, ip)
    \/ RateLimitedGet(1)
    \/ \E raw \in StoreUrls, custom \in StoreCodes :
           CreateAdmission(1, raw, custom)
    \/ \E c \in Draws : GenAttempt(1, c)
    \/ Insert(1)
    \/ \E code \in Codes : StartGo(1, code)
    \/ GoUpdate(1)

SpecStore == Init /\ [][NextStore]_vars

\* /shorten called by concurrent threads for one client within one rate-limit
\* window, every request with a form that create() rejects.
NextRejected ==
    \/ \E t \in Threads, ip \in Clients :
           StartCreateUpTo(t, ip, MaxBurstRequests)
    \/ \E t \in Threads : RateLimitedGet(t)
    \/ \E t \in Threads, f \in RejectedForms :
           CreateAdmission(t, f.long_url, f.custom_code)

SpecRejected == Init /\ [][NextRejected]_vars

\* /shorten and /<code> called by two clients, one request after another,
\* within one rate-limit window.
NextKeys ==
    \/ \E ip \in TwoClients : StartCreateUpTo(1, ip, MaxKeysRequests)
    \/ RateLimitedGet(1)
    \/ \E raw \in BurstUrls : CreateAdmission(1, raw, <<>>)
    \/ GenAttempt(1, BurstDraw)
    \/ Insert(1)
    \/ StartGoUpTo(1, BurstDraw, MaxKeysRequests)
    \/ GoUpdate(1)

SpecKeys == Init /\ [][NextKeys]_vars

\* ------------------------------------------------------------ properties
\* The calls admitted for key with a timestamp in the window that ends at now.
InWindow(key, now) ==
    LET B == admitted[key]
        recent == {x \in BagToSet(B) : x > now - RATE_LIMIT_WINDOW /\ x <= now}
    IN  BagCardinality([x \in recent |-> B[x]])

\* The calls admitted for key a full window or more before now.
Elapsed(key, now) ==
    LET B == admitted[key]
        old == {x \in BagToSet(B) : x <= now - RATE_LIMIT_WINDOW}
    IN  BagCardinality([x \in old |-> B[x]])

\* C3: with one caller, a call that finds RATE_LIMIT_BURST admitted calls in its
\* window is denied, and a call made when every admitted call is a full window
\* old is admitted (whatever their number).
C3_DeniedThenResumes ==
    \A t \in Threads :
        pc[t] = "rl_set" =>
            LET key == CreateKey(req[t].client_ip)
                now == local[t].now
            IN  /\ InWindow(key, now) >= RATE_LIMIT_BURST => ~local[t].allowed
                /\ InWindow(key, now) = 0 => local[t].allowed

\* C3 witness: a call is admitted after RATE_LIMIT_BURST calls that are now a
\* window old, one call having been denied in their window.
C3_Witness ==
    \E t \in Threads :
        /\ pc[t] = "rl_set"
        /\ local[t].allowed
        /\ Elapsed(CreateKey(req[t].client_ip), local[t].now) >= RATE_LIMIT_BURST
        /\ \E d \in denied :
               /\ d[1] = CreateKey(req[t].client_ip)
               /\ d[2] < local[t].now

\* C4: whatever the interleaving of concurrent calls, the calls admitted for a
\* key in any window of RATE_LIMIT_WINDOW seconds number at most
\* RATE_LIMIT_BURST.
C4_BurstNeverExceeded ==
    \A key \in Keys, now \in 0..MaxTime : InWindow(key, now) <= RATE_LIMIT_BURST


\* A create request that reached its INSERT and has its response.
Inserted(t) ==
    /\ req[t].op = "create"
    /\ pc[t] = "done"
    /\ resp[t].status = 200
    /\ resp[t].error \in {"", CodeTaken}

\* Two finished requests that carried the same valid custom code, each read
\* while no row held the code.
SameCustomCode(t1, t2) ==
    /\ t1 # t2
    /\ Inserted(t1) /\ Inserted(t2)
    /\ fresh[t1] /\ fresh[t2]
    /\ Strip(req[t1].custom_code) # <<>>
    /\ Strip(req[t1].custom_code) = Strip(req[t2].custom_code)

\* C1: of two concurrent requests with the same custom code, absent from the
\* table when both were read, one gets the link and the other "That code is
\* already taken", and the table holds one row with the code.
C1_OneWinnerOneTaken ==
    \A t1, t2 \in Threads :
        SameCustomCode(t1, t2) =>
            LET code == Strip(req[t1].custom_code)
            IN  /\ Cardinality(Select(code)) = 1
                /\ \E w \in {t1, t2} :
                       /\ resp[w].error = ""
                       /\ resp[w].code = code
                       /\ \A l \in {t1, t2} \ {w} : resp[l].error = CodeTaken

\* C1 witness: two such requests have both finished.
C1_Witness == \E t1, t2 \in Threads : SameCustomCode(t1, t2)

\* C2: no two rows share a code, no two success responses carry the same code,
\* and each success response is the one row of its code.
C2_CodesUnique ==
    /\ \A i, j \in 1..Len(urls) : urls[i].code = urls[j].code => i = j
    /\ \A i, j \in 1..Len(issued) : issued[i].code = issued[j].code => i = j
    /\ \A k \in 1..Len(issued) :
           /\ Cardinality(Select(issued[k].code)) = 1
           /\ \A i \in Select(issued[k].code) :
                  urls[i].long_url = issued[k].long_url
    /\ \A t \in Threads :
           Inserted(t) /\ resp[t].error = "" =>
               \E k \in 1..Len(issued) :
                   /\ issued[k].code = resp[t].code
                   /\ issued[k].long_url = resp[t].long_url

\* C2 witness: two links were issued, and a request without a custom code lost
\* its INSERT to a concurrent one.
C2_Witness ==
    /\ Len(issued) = 2
    /\ \E t \in Threads :
           /\ Inserted(t)
           /\ req[t].custom_code = <<>>
           /\ resp[t].error = CodeTaken
           /\ local[t].tries = 0

\* C5: a request without a custom code whose RETRIES candidates were all in the
\* table gets an error that is not "That code is already taken", and no row.
C5_ExhaustedRetries ==
    \A t \in Threads :
        /\ req[t].op = "create"
        /\ pc[t] = "done"
        /\ local[t].tries = RETRIES
        => /\ resp[t].error # ""
           /\ resp[t].error # CodeTaken

\* The redirects served for code.
Served(code) == {e \in BagToSet(served) : e.code = code}
ServedCount(code) == BagCardinality([e \in Served(code) |-> served[e]])

\* C6: each row's clicks is the number of redirects served for its code, and
\* each of them went to the row's long_url.
C6_ClicksCountRedirects ==
    \A i \in 1..Len(urls) :
        /\ urls[i].clicks = ServedCount(urls[i].code)
        /\ \A e \in Served(urls[i].code) : e.long_url = urls[i].long_url

\* C6 witness: one redirect of a code is served and counted while a concurrent
\* request for the same code has read the row and not yet updated it.
C6_Witness ==
    \E t1, t2 \in Threads, i \in 1..Len(urls) :
        /\ pc[t1] = "done" /\ resp[t1].status = 302
        /\ resp[t1].code = urls[i].code
        /\ pc[t2] = "go_update" /\ req[t2].code = urls[i].code
        /\ urls[i].clicks = 1
        /\ ServedCount(urls[i].code) = 1

\* The URLs the claim says are rejected: after trimming, and with https://
\* put before a text without a scheme, the scheme is not http or https or
\* there is no host.
NoSchemeOrHost(raw) ==
    LET u0 == Strip(raw)
        u == IF (urlparse(u0)).scheme = <<>> THEN HttpsPrefix \o u0 ELSE u0
    IN  \/ (urlparse(u)).scheme \notin {<<"http">>, <<"https">>}
        \/ (urlparse(u)).netloc = <<>>

\* C7: a request whose URL has another scheme than http/https, or no host (the
\* empty URL too), ends with the scheme or the host error, and goes no further.
C7_BadUrlRejected ==
    \A t \in Threads :
        /\ req[t].op = "create"
        /\ pc[t] \in {"gen", "insert"} \/ (pc[t] = "done" /\ resp[t].status = 200)
        /\ NoSchemeOrHost(req[t].long_url)
        => /\ pc[t] = "done"
           /\ resp[t].error \in {"Only http/https URLs are supported.",
                                 "Invalid URL host."}

\* C8: every row's long_url is not empty, has the scheme http or https, has a
\* host and is at most MAX_URL_LEN characters long.
C8_StoredUrlsValid ==
    \A i \in 1..Len(urls) :
        LET u == urls[i].long_url
        IN  /\ u # <<>>
            /\ (urlparse(u)).scheme \in {<<"http">>, <<"https">>}
            /\ (urlparse(u)).netloc # <<>>
            /\ StrLen(u) <= MAX_URL_LEN

\* C9: a /<code> request that found its row answers with the redirect to the
\* row's long_url, also when its UPDATE failed.
C9_RedirectDespiteFault ==
    \A t \in Threads :
        /\ req[t].op = "go"
        /\ pc[t] = "done"
        /\ Select(req[t].code) # {}
        /\ resp[t] # NotFound
        => /\ resp[t].status = 302
           /\ resp[t].long_url = (FetchOne(req[t].code)).long_url

\* The long_url issued for code.
IssuedFor(code) == {issued[k].long_url : k \in {j \in 1..Len(issued) : issued[j].code = code}}

\* C10: a success response's row starts with clicks 0; every redirect of its
\* code goes to the long_url of the response; the first UPDATE of the row
\* leaves clicks 1.
C10_RoundTrip ==
    [][\A t \in Threads :
          /\ (pc[t] = "insert" /\ pc'[t] = "done" /\ resp'[t].error = "") =>
                /\ Len(urls') = Len(urls) + 1
                /\ urls'[Len(urls')].code = resp'[t].code
                /\ urls'[Len(urls')].long_url = resp'[t].long_url
                /\ urls'[Len(urls')].clicks = 0
          /\ (pc[t] = "go_update" /\ pc'[t] = "done") =>
                /\ resp'[t].status = 302
                /\ IssuedFor(req[t].code) = {resp'[t].long_url}
                /\ \A i \in Select(req[t].code) :
                       urls[i].clicks = 0 => urls'[i].clicks = 1
      ]_vars

\* C10 witness: a link was issued, another request was served since, and the
\* first redirect of the link went to its long_url and left clicks 1.
C10_Witness ==
    \E t \in Threads, k \in 1..Len(issued), i \in 1..Len(urls) :
        /\ pc[t] = "done" /\ resp[t].status = 302
        /\ resp[t].code = issued[k].code
        /\ resp[t].long_url = issued[k].long_url
        /\ resp[t].long_url # <<>>
        /\ urls[i].code = issued[k].code
        /\ urls[i].clicks = 1
        /\ Len(issued) = 2

\* The text of raw without the spaces around it, as the claim words it.
Trimmed(raw) ==
    LET first == CHOOSE i \in 1..(Len(raw) + 1) :
                     /\ \A k \in 1..(i - 1) : raw[k] = " "
                     /\ i <= Len(raw) => raw[i] # " "
        last == CHOOSE j \in 0..Len(raw) :
                     /\ \A k \in (j + 1)..Len(raw) : raw[k] = " "
                     /\ j >= 1 => raw[j] # " "
    IN  IF first > Len(raw) THEN <<>> ELSE SubSeq(raw, first, last)

\* A valid input that is missing a scheme: with https:// before the trimmed
\* text there is a host, and at most MAX_URL_LEN characters.
ValidMissingScheme(raw) ==
    LET u == <<"https", ":", "/", "/">> \o Trimmed(raw)
    IN  /\ (urlparse(Trimmed(raw))).scheme = <<>>
        /\ (urlparse(u)).netloc # <<>>
        /\ StrLen(u) <= MAX_URL_LEN

\* An input that carries the scheme http or https.
CarriesHttp(raw) == (urlparse(Trimmed(raw))).scheme \in {<<"http">>, <<"https">>}

\* The long_url a request holds after normalize_url, stores and returns.
Normalized(t, u) ==
    /\ pc[t] \in {"gen", "insert"} => local[t].long_url = u
    /\ pc[t] = "done" =>
           /\ resp[t].error = ""
           /\ resp[t].long_url = u
           /\ \E i \in Select(resp[t].code) : urls[i].long_url = u

\* C11: an admitted request whose long_url is valid and has no scheme goes on
\* with, stores and returns https:// followed by the trimmed input; one whose
\* long_url carries http or https and is stored, is stored as trimmed.
C11_HttpsPrepended ==
    \A t \in Threads :
        /\ req[t].op = "create"
        /\ pc[t] \in {"gen", "insert"} \/ (pc[t] = "done" /\ resp[t].status = 200)
        => LET raw == req[t].long_url
           IN  /\ ValidMissingScheme(raw) =>
                      Normalized(t, <<"https", ":", "/", "/">> \o Trimmed(raw))
               /\ CarriesHttp(raw) /\ (pc[t] # "done" \/ resp[t].error = "") =>
                      Normalized(t, Trimmed(raw))

\* C11 witness: a row holds https:// and the trimmed text of a long_url that
\* was submitted with spaces around it, a path and no scheme.
C11_Witness ==
    \E t \in Threads :
        /\ req[t].op = "create" /\ pc[t] = "done" /\ resp[t].error = ""
        /\ req[t].long_url = <<" ", "a", "/", "a", " ">>
        /\ urls # <<>>
        /\ urls[1].long_url = <<"https", ":", "/", "/", "a", "/", "a">>
        /\ resp[t].long_url = urls[1].long_url

\* C12: a /shorten request that rate_limited denies ends at once with status
\* 429 and "Too many requests", whatever its form holds, and the table is as
\* it was; a request that was admitted never ends with that status or message.
C12_DeniedIs429 ==
    [][\A t \in Threads :
          req[t].op = "create" /\ pc[t] \in {"rl_set", "gen", "insert"}
              /\ pc'[t] # pc[t]
          => IF pc[t] = "rl_set" /\ ~local[t].allowed
             THEN /\ pc'[t] = "done"
                  /\ resp'[t].status = 429
                  /\ resp'[t].error = TooManyRequests
                  /\ urls' = urls
             ELSE pc'[t] = "done" =>
                     /\ resp'[t].status # 429
                     /\ resp'[t].error # TooManyRequests
      ]_vars

\* C12 witness: a request got 429 while the table holds a row, the client's
\* RATE_LIMIT_BURST earlier requests having been admitted.
C12_Witness ==
    \E t \in Threads :
        /\ req[t].op = "create" /\ pc[t] = "done"
        /\ resp[t].status = 429
        /\ urls # <<>>
        /\ Len(rate_bucket[CreateKey(req[t].client_ip)]) = RATE_LIMIT_BURST

\* C13: a /shorten request without a custom code never ends with "That code
\* is already taken": it ends with a link, or with another error.
C13_NoTakenWithoutCustomCode ==
    \A t \in Threads :
        /\ req[t].op = "create"
        /\ pc[t] = "done"
        /\ resp[t].status = 200
        /\ Strip(req[t].custom_code) = <<>>
        => resp[t].error # CodeTaken

\* A request whose form was read with a valid long_url and a valid custom
\* code that a row held at that time.
CustomCodePresent(t) ==
    /\ req[t].op = "create"
    /\ (normalize_url(req[t].long_url)).ok
    /\ CUSTOM_CODE_REGEX(Strip(req[t].custom_code))
    /\ ~fresh[t]

\* C14: a request with a valid custom code that a row already holds leaves
\* the table as it is at each of its steps, and ends with "That code is
\* already taken", whatever its long_url.
C14_TakenChangesNothing ==
    [][\A t \in Threads :
          /\ pc[t] \in {"rl_set", "insert"}
          /\ pc'[t] \in {"insert", "done"}
          /\ pc'[t] # pc[t]
          /\ req'[t].op = "create"
          /\ (normalize_url(req'[t].long_url)).ok
          /\ CUSTOM_CODE_REGEX(Strip(req'[t].custom_code))
          /\ ~fresh'[t]
          => /\ urls' = urls
             /\ pc'[t] = "done" => resp'[t].error = CodeTaken
      ]_vars

\* C14 witness: a request got "That code is already taken" for the code of a
\* row that was created earlier with another long_url and redirected to since.
C14_Witness ==
    \E t \in Threads, i \in 1..Len(urls) :
        /\ CustomCodePresent(t)
        /\ pc[t] = "done" /\ resp[t].error = CodeTaken
        /\ urls[i].code = Strip(req[t].custom_code)
        /\ urls[i].long_url # (normalize_url(req[t].long_url)).url
        /\ urls[i].created_at < clock
        /\ urls[i].clicks = 1
        /\ urls[i].last_accessed # <<>>

\* C15: at every step no row is removed, no row's code, long_url or
\* created_at changes and no row's clicks decreases; the UPDATE of a /<code>
\* request adds no row and changes no row of another code; a /<code> request
\* for a code that no row holds gets 404 and the table is as it was.
C15_RowsOnlyCounted ==
    [][/\ Len(urls') >= Len(urls)
       /\ \A i \in 1..Len(urls) :
              /\ urls'[i].code = urls[i].code
              /\ urls'[i].long_url = urls[i].long_url
              /\ urls'[i].created_at = urls[i].created_at
              /\ urls'[i].clicks >= urls[i].clicks
       /\ \A t \in Threads :
              /\ pc[t] = "go_update" /\ pc'[t] = "done" =>
                     /\ Len(urls') = Len(urls)
                     /\ \A i \in 1..Len(urls) :
                            urls[i].code # req[t].code => urls'[i] = urls[i]
              /\ Ready(t) /\ nreq' # nreq /\ req'[t].op = "go"
                     /\ Select(req'[t].code) = {} =>
                     /\ pc'[t] = "done"
                     /\ resp'[t].status = 404
                     /\ urls' = urls
      ]_vars

\* C15 witness: of two rows, one was redirected to after the clock advanced
\* and holds the click and its time, the other is as it was created.
C15_Witness ==
    \E t \in Threads, i, j \in 1..Len(urls) :
        /\ pc[t] = "done" /\ resp[t].status = 302
        /\ urls[i].code = req[t].code
        /\ urls[i].clicks = 1
        /\ urls[i].last_accessed = <<clock>>
        /\ urls[i].created_at < clock
        /\ urls[j].code # req[t].code
        /\ urls[j].clicks = 0
        /\ urls[j].last_accessed = <<>>

\* The number of times x occurs in the list s.
CountIn(s, x) == Cardinality({k \in 1..Len(s) : s[k] = x})

\* Every timestamp of the list s is the time of an admitted call for key, as
\* many times at most as calls were admitted at that time.
OnlyAdmitted(s, key) ==
    \A k \in 1..Len(s) : CountIn(s, s[k]) <= CopiesIn(s[k], admitted[key])

\* C16: with one caller, the timestamps stored for a key are those of
\* admitted calls only; the list that a denied call is about to store has no
\* timestamp of its own; and a call made when the oldest stored timestamp is
\* more than RATE_LIMIT_WINDOW old is admitted, however many calls were denied
\* before.
C16_DeniedAddsNothing ==
    /\ \A key \in Keys : OnlyAdmitted(rate_bucket[key], key)
    /\ \A t \in Threads :
           pc[t] = "rl_set" =>
               LET key == CreateKey(req[t].client_ip)
                   now == local[t].now
                   stored == rate_bucket[key]
               IN  /\ ~local[t].allowed => OnlyAdmitted(local[t].bucket, key)
                   /\ (stored # <<>> /\ \E k \in 1..Len(stored) :
                           /\ \A j \in 1..Len(stored) : stored[k] <= stored[j]
                           /\ stored[k] < now - RATE_LIMIT_WINDOW)
                       => local[t].allowed

\* C16 witness: RATE_LIMIT_BURST timestamps are stored, calls were denied at
\* two times since, and the call made when the oldest timestamp is more than
\* RATE_LIMIT_WINDOW old is admitted.
C16_Witness ==
    \E t \in Threads :
        LET key == CreateKey(req[t].client_ip)
        IN  /\ pc[t] = "rl_set"
            /\ local[t].allowed
            /\ Len(rate_bucket[key]) = RATE_LIMIT_BURST
            /\ rate_bucket[key][1] < local[t].now - RATE_LIMIT_WINDOW
            /\ \E d1, d2 \in denied :
                   /\ d1[1] = key /\ d2[1] = key
                   /\ rate_bucket[key][1] <= d1[2]
                   /\ d1[2] < d2[2]
                   /\ d2[2] < local[t].now

\* C17: whatever the interleaving of concurrent calls, the list stored for a
\* key, and the list a call is about to store, hold at most RATE_LIMIT_BURST
\* timestamps.
C17_BucketBounded ==
    /\ \A key \in Keys : Len(rate_bucket[key]) <= RATE_LIMIT_BURST
    /\ \A t \in Threads : Len(local[t].bucket) <= RATE_LIMIT_BURST

\* C17 witness: racing calls were admitted more than RATE_LIMIT_BURST times
\* in one window, and the list stored holds RATE_LIMIT_BURST timestamps.
C17_Witness ==
    \E key \in Keys :
        /\ Len(rate_bucket[key]) = RATE_LIMIT_BURST
        /\ InWindow(key, clock) > RATE_LIMIT_BURST

\* C18: a /shorten request made when RATE_LIMIT_BURST requests of its
\* client, all of them rejected for their long_url or their custom code, were
\* admitted within its window, is denied.
C18_TenFailedThenDenied ==
    \A t \in Threads :
        /\ pc[t] = "rl_set"
        /\ req[t].op = "create"
        /\ issued = <<>>
        /\ InWindow(CreateKey(req[t].client_ip), local[t].now) >= RATE_LIMIT_BURST
        => ~local[t].allowed

\* C19: the decision of a rate_limited call is made from the list stored
\* for its own key; its write leaves the list of every other key as it was;
\* and a step of a /<code> request leaves every list as it was and never
\* answers 429.
C19_KeysIndependent ==
    [][\A t \in Threads :
          LET key == CreateKey(req[t].client_ip)
              own == rate_bucket[key]
              recent == {k \in 1..Len(own) :
                            own[k] > local[t].now - RATE_LIMIT_WINDOW}
          IN  /\ pc[t] = "rl_get" /\ pc'[t] = "rl_set" =>
                     local'[t].allowed = (Cardinality(recent) < RATE_LIMIT_BURST)
              /\ pc[t] = "rl_set" /\ pc'[t] # "rl_set" =>
                     \A k2 \in DOMAIN rate_bucket \ {key} :
                         rate_bucket'[k2] = rate_bucket[k2]
              /\ req'[t].op = "go" /\ (pc'[t] # pc[t] \/ nreq' # nreq) =>
                     /\ rate_bucket' = rate_bucket
                     /\ resp'[t].status # 429
      ]_vars

\* C19 witness: one client has RATE_LIMIT_BURST timestamps stored and was
\* denied, a redirect was served, and the other client's request since is
\* admitted, with its one timestamp stored.
C19_Witness ==
    \E t \in Threads :
        /\ req[t].op = "create" /\ pc[t] = "done"
        /\ req[t].client_ip = "10.0.0.2"
        /\ resp[t].status = 200
        /\ Len(rate_bucket[CreateKey("10.0.0.2")]) = 1
        /\ Len(rate_bucket[CreateKey("10.0.0.1")]) = RATE_LIMIT_BURST
        /\ \E d \in denied : d[1] = CreateKey("10.0.0.1")
        /\ served # EmptyBag

=============================================================================
